---- MODULE Spec2Model ----
(***************************************************************************)
(* CPU scheduling visualizer.                                              *)
(*                                                                         *)
(* Spec, FairSpec: the four policy engines (FCFS, SJF, Priority, Round     *)
(* Robin) modelled loop iteration by loop iteration. A behaviour is one    *)
(* invocation of one policy function: a policy is selected (setAlgo), the  *)
(* caller puts together a well-formed process list (Supply), the selected  *)
(* function is called (Call: the set-up before the loop), the loop         *)
(* iterations run, and the function returns (Return).                      *)
(* TwiceSpec: the same, and the caller invokes the function a second time  *)
(* with the same arguments (Reinvoke).                                     *)
(* SpecDuplicate, FairSpecDuplicate: the same engines on process lists in  *)
(* which an id repeats (SupplyDuplicate).                                  *)
(* SpecUI: the component. Its state is the process list, the controls and  *)
(* the stored outputs of the last build; its actions are the handlers of   *)
(* the form, the table, the controls and the build button, each of which   *)
(* runs to completion (buildSchedule calls the policy function as a whole).*)
(* SpecPlayback, FairSpecPlayback: the component with its playback: the    *)
(* Play/Pause, Step and Reset buttons, the speed field and the firings of  *)
(* the interval timer, interleaved with builds, policy and quantum changes *)
(* and the Clear and Load Demo buttons.                                    *)
(***************************************************************************)
EXTENDS Integers, Sequences, FiniteSets, TLC

(* ---------- bounds of the explored inputs ---------- *)
MaxProcs == 2
MaxArrival == 2
MaxBurst == 2
MaxPriority == 2
MaxQuantum == 2

(* ---------- program constants ---------- *)
IDLE == "IDLE"
PidPool == <<"P1", "P2", "P3", "P4", "P5">>
Algos == {"FCFS", "SJF", "PRIORITY", "RR"}

Proc(id, arrival, burst, priority) ==
    [id |-> id, arrival |-> arrival, burst |-> burst, priority |-> priority]

(* the process list the component is constructed with *)
InitialProcesses ==
    << Proc("P1", 0, 4, 2), Proc("P2", 1, 3, 1), Proc("P3", 2, 6, 3) >>

(* the process list "Load Demo" installs *)
DemoProcesses ==
    << Proc("P1", 0, 7, 2), Proc("P2", 2, 4, 1),
       Proc("P3", 4, 1, 3), Proc("P4", 5, 4, 2) >>

InitialQuantum == 2

(* useState(200) of the playback speed *)
InitialSpeed == 200

(* the priority the process form starts with *)
DefaultPriority == 1

(* the quanta a round-robin call is given: q >= 1 *)
Quanta == (1..MaxQuantum) \cup {InitialQuantum}

(* ---------- utilities ---------- *)
deepClone(x) ==
    [k \in 1..Len(x) |-> Proc(x[k].id, x[k].arrival, x[k].burst, x[k].priority)]

by(k, a, b) == IF a[k] = b[k] THEN 0 ELSE IF a[k] < b[k] THEN -1 ELSE 1

nz(x, y) == IF x # 0 THEN x ELSE y

(* variant: the priority difference is taken the other way round, the     *)
(* higher value wins                                                       *)
priorityCmp_higherFirst(a, b) ==
    nz(b.priority - a.priority, nz(a.arrival - b.arrival, a.burst - b.burst))

priorityCmp(a, b) ==
    nz(a.priority - b.priority, nz(a.arrival - b.arrival, a.burst - b.burst))

compare(c, a, b) == IF c = "priorityCmp" THEN priorityCmp(a, b) ELSE by(c, a, b)

(* variant: elements that compare equal come out in reverse input order *)
sort_tiesReversed(s, c) ==
    LET before(j, k) == \/ compare(c, s[j], s[k]) < 0
                        \/ compare(c, s[j], s[k]) = 0 /\ j > k
        rank(k) == Cardinality({j \in 1..Len(s) : before(j, k)}) + 1
    IN [p \in 1..Len(s) |-> s[CHOOSE k \in 1..Len(s) : rank(k) = p]]

(* Array.prototype.sort with a consistent comparator: the stable sort. The  *)
(* element at input position j precedes the one at k when it compares      *)
(* smaller, or compares equal and j < k.                                   *)
sort(s, c) ==
    LET before(j, k) == \/ compare(c, s[j], s[k]) < 0
                        \/ compare(c, s[j], s[k]) = 0 /\ j < k
        rank(k) == Cardinality({j \in 1..Len(s) : before(j, k)}) + 1
    IN [p \in 1..Len(s) |-> s[CHOOSE k \in 1..Len(s) : rank(k) = p]]

(* ---------- JavaScript numbers that may be undefined or NaN ---------- *)
(* The times, bursts and slices of the program are integers >= 0; the two  *)
(* non-numbers are encoded as negative integers no such value takes.       *)
NaN == 0 - 1
undefined == 0 - 2

isNumber(x) == x # NaN /\ x # undefined

(* a + b and a - b: NaN as soon as one operand is not a number *)
plus(a, b) == IF isNumber(a) /\ isNumber(b) THEN a + b ELSE NaN

minus(a, b) == IF isNumber(a) /\ isNumber(b) THEN a - b ELSE NaN

(* a < b, a <= b and a > b: false as soon as one operand is not a number *)
lt(a, b) == isNumber(a) /\ isNumber(b) /\ a < b

le(a, b) == isNumber(a) /\ isNumber(b) /\ a <= b

(* variant: written as the negation of <=, which is true of NaN *)
gt_notLe(a, b) == ~le(a, b)

gt(a, b) == isNumber(a) /\ isNumber(b) /\ a > b

(* Math.min(a, b): NaN as soon as one argument is not a number *)
min(a, b) == IF isNumber(a) /\ isNumber(b) THEN (IF a <= b THEN a ELSE b) ELSE NaN

(* Map.prototype.get: undefined for a key the map does not hold *)
get(m, k) == IF k \in DOMAIN m THEN m[k] ELSE undefined

(* Map.prototype.set: the key is added when the map does not hold it *)
set(m, k, v) == [x \in DOMAIN m \cup {k} |-> IF x = k THEN v ELSE m[x]]

(* Map.prototype.delete *)
delete(m, k) == [x \in DOMAIN m \ {k} |-> m[x]]

(* ---------- object identity of the arrays ---------- *)
(* The caller's array is one object. JSON.parse builds the array deepClone  *)
(* returns: an object of its own, never the argument.                      *)
callerArray == "processes"

(* variant: no copy is taken, the argument itself is returned *)
deepCloneObject_same(obj) == obj

deepCloneObject(obj) == "clone"

(* Array.prototype.sort sorts the array object it is called on in place:    *)
(* the contents ps of the caller's array after target.sort(c)              *)
sortInPlace(target, ps, c) == IF target = callerArray THEN sort(ps, c) ELSE ps

(* variant: reads the first element without removing it *)
shift_peek(a) == a

(* Array.prototype.shift: the array without its first element *)
shift(a) == Tail(a)

Segment(pid, start, end) == [pid |-> pid, start |-> start, end |-> end]

(* ---------- state ---------- *)
VARIABLES
    processes,       \* the caller's process list (argument of the call)
    algo,            \* the selected policy
    quantum,         \* q, the round-robin argument
    procs,           \* the sorted clone (procs / remaining in the source)
    i,               \* pending index into procs (0-based, as in the source)
    ready,           \* ready list (SJF, Priority) or FIFO queue (RR)
    remainingBurst,  \* RR: Map id -> remaining burst
    time,            \* the time cursor
    segments,        \* the segment list built so far
    iters,           \* number of main-loop iterations executed
    pc,              \* "args", "loop", "done", "threw", "again"; "ui" in the component
    previous,        \* << the segment list the previous invocation returned >>, or << >>
    ticks,           \* component state: the tick sequence
    currentTime,     \* component state: the playback cursor
    running,         \* component state: the playback flag
    built,           \* << the process list the last build request read >>, or << >>
    timerRef,        \* timerRef.current: << >> (null), or << n >> for a live interval
                     \* whose callback closed over a tick sequence of length n
    speed            \* component state: the playback speed in ms per tick

vars == << processes, algo, quantum, procs, i, ready, remainingBurst,
           time, segments, iters, pc, previous, ticks, currentTime, running,
           built, timerRef, speed >>

(* the state of the component that a policy function does not touch *)
outside == << previous, ticks, currentTime, running, built, timerRef, speed >>

Init ==
    /\ processes = <<>>
    /\ algo = "FCFS"
    /\ quantum = InitialQuantum
    /\ procs = <<>>
    /\ i = 0
    /\ ready = <<>>
    /\ remainingBurst = <<>>
    /\ time = 0
    /\ segments = <<>>
    /\ iters = 0
    /\ pc = "args"
    /\ previous = << >>
    /\ ticks = << >>
    /\ currentTime = 0
    /\ running = FALSE
    /\ built = << >>
    /\ timerRef = << >>
    /\ speed = InitialSpeed

(* ---------- the selected policy ---------- *)
(* the engine's caller selects the policy before the list is put together; *)
(* in the component the select box sets it at any time                     *)
setAlgo ==
    /\ pc \in (IF processes = <<>> THEN {"args", "ui"} ELSE {"ui"})
    /\ \E a \in Algos \ {algo} : algo' = a
    /\ UNCHANGED << processes, quantum, procs, i, ready, remainingBurst,
                    time, segments, iters, pc >>
    /\ UNCHANGED outside

(* ---------- the caller's process list ---------- *)
(* Only schedulePriority reads the priority field: for the other policies  *)
(* the processes carry the form's default priority.                        *)
Priorities == IF algo = "PRIORITY" THEN 1..MaxPriority ELSE {DefaultPriority}

(* One more well-formed process: its id is the next unused id of the pool  *)
(* (ids stay pairwise distinct and none is the idle sentinel), arrival >= 0,*)
(* burst >= 1.                                                             *)
Supply ==
    /\ pc = "args"
    /\ Len(processes) < MaxProcs
    /\ \E arrival \in 0..MaxArrival, burst \in 1..MaxBurst, priority \in Priorities :
          processes' = Append(processes,
                              Proc(PidPool[Len(processes) + 1], arrival, burst, priority))
    /\ UNCHANGED << algo, quantum, procs, i, ready, remainingBurst,
                    time, segments, iters, pc >>
    /\ UNCHANGED outside

(* the list the component starts with *)
SupplyInitial ==
    /\ pc = "args"
    /\ processes = <<>>
    /\ processes' = InitialProcesses
    /\ UNCHANGED << algo, quantum, procs, i, ready, remainingBurst,
                    time, segments, iters, pc >>
    /\ UNCHANGED outside

(* the list "Load Demo" installs *)
SupplyDemo ==
    /\ pc = "args"
    /\ processes = <<>>
    /\ processes' = DemoProcesses
    /\ UNCHANGED << algo, quantum, procs, i, ready, remainingBurst,
                    time, segments, iters, pc >>
    /\ UNCHANGED outside

(* ---------- the inner while loops that move arrivals ---------- *)
(* variant: a process is taken as arrived one time unit early *)
RECURSIVE sjfMoveArrivals_early(_, _, _, _)
sjfMoveArrivals_early(t, remaining, rdy, idx) ==
    IF idx < Len(remaining) /\ remaining[idx + 1].arrival <= t + 1
    THEN sjfMoveArrivals_early(t, remaining, Append(rdy, remaining[idx + 1]), idx + 1)
    ELSE [ready |-> rdy, i |-> idx]

RECURSIVE sjfMoveArrivals(_, _, _, _)
sjfMoveArrivals(t, remaining, rdy, idx) ==
    IF idx < Len(remaining) /\ remaining[idx + 1].arrival <= t
    THEN sjfMoveArrivals(t, remaining, Append(rdy, remaining[idx + 1]), idx + 1)
    ELSE [ready |-> rdy, i |-> idx]

(* variant: the idle segment is one time unit long, whatever the gap *)
prIdle_unitStep(segs, t, nextArrival) ==
    [segments |-> Append(segs, Segment(IDLE, t, t + 1)), time |-> t + 1]

(* Priority: the idle segment up to the next pending arrival *)
prIdle(segs, t, nextArrival) ==
    [segments |-> Append(segs, Segment(IDLE, t, nextArrival)), time |-> nextArrival]

RECURSIVE prMoveArrivals(_, _, _, _)
prMoveArrivals(t, remaining, rdy, idx) ==
    IF idx < Len(remaining) /\ remaining[idx + 1].arrival <= t
    THEN prMoveArrivals(t, remaining, Append(rdy, remaining[idx + 1]), idx + 1)
    ELSE [ready |-> rdy, i |-> idx]

(* variant: strict comparison, a process arriving exactly at t is not enqueued *)
RECURSIVE enqueueArrivals_strict(_, _, _, _)
enqueueArrivals_strict(t, ps, queue, idx) ==
    IF idx < Len(ps) /\ lt(ps[idx + 1].arrival, t)
    THEN enqueueArrivals_strict(t, ps, Append(queue, ps[idx + 1]), idx + 1)
    ELSE [ready |-> queue, i |-> idx]

RECURSIVE enqueueArrivals(_, _, _, _)
enqueueArrivals(t, ps, queue, idx) ==
    IF idx < Len(ps) /\ le(ps[idx + 1].arrival, t)
    THEN enqueueArrivals(t, ps, Append(queue, ps[idx + 1]), idx + 1)
    ELSE [ready |-> queue, i |-> idx]

(* new Map(procs.map(p => [p.id, p.burst])): a later entry of the same key wins *)
newRemainingBurst(ps) ==
    [id \in {ps[k].id : k \in 1..Len(ps)} |->
        LET last == CHOOSE k \in 1..Len(ps) :
                        /\ ps[k].id = id
                        /\ \A m \in (k + 1)..Len(ps) : ps[m].id # id
        IN ps[last].burst]

(* variant: the gap test is <=, an empty gap gets an idle segment too *)
fcfsIdle_emptyGap(segs, t, p) ==
    IF t <= p.arrival
    THEN [segments |-> Append(segs, Segment(IDLE, t, p.arrival)), time |-> p.arrival]
    ELSE [segments |-> segs, time |-> t]

(* variant: the cursor jumps to the arrival without an idle segment *)
fcfsIdle_noSegment(segs, t, p) ==
    IF t < p.arrival
    THEN [segments |-> segs, time |-> p.arrival]
    ELSE [segments |-> segs, time |-> t]

(* FCFS: the idle gap in front of process p when the cursor is below its arrival *)
fcfsIdle(segs, t, p) ==
    IF t < p.arrival
    THEN [segments |-> Append(segs, Segment(IDLE, t, p.arrival)), time |-> p.arrival]
    ELSE [segments |-> segs, time |-> t]

(* variant: the ready list is left in insertion order *)
sjfSort_unsorted(rdy) == rdy

(* SJF: ready.sort(by("burst")) *)
sjfSort(rdy) == sort(rdy, "burst")

(* Priority: ready.sort(priority, then arrival, then burst) *)
prSort(rdy) == sort(rdy, "priorityCmp")

(* variant: one time unit per slice, whatever the quantum *)
rrSlice_unit(q, rem) == 1

(* variant: always a full quantum *)
rrSlice_fullQuantum(q, rem) == q

(* variant: the whole remaining burst *)
rrSlice_wholeBurst(q, rem) == rem

(* RR: const slice = Math.min(q, rem) *)
rrSlice(q, rem) == min(q, rem)

(* variant: a slice that continues the last segment is merged into it *)
rrPush_merging(segs, seg) ==
    IF Len(segs) > 0 /\ segs[Len(segs)].pid = seg.pid /\ segs[Len(segs)].end = seg.start
    THEN [segs EXCEPT ![Len(segs)] = Segment(seg.pid, segs[Len(segs)].start, seg.end)]
    ELSE Append(segs, seg)

(* RR: segments.push of the slice that just ran *)
rrPush(segs, seg) == Append(segs, seg)

(* variant: the just-run process is put back before the new arrivals *)
rrRequeue_incumbentFirst(ps, queue, idx, t1, current, newRem) ==
    LET e == enqueueArrivals(t1, ps,
                 IF gt(newRem, 0) THEN Append(queue, current) ELSE queue, idx)
    IN [ready |-> e.ready, i |-> e.i]

(* variant: the cursor jumps to the arrival without an idle segment *)
rrIdle_noSegment(segs, t, nextArrival) == segs

(* RR: the idle segment up to the next arrival, pushed when the cursor is  *)
(* below it                                                                *)
rrIdle(segs, t, nextArrival) ==
    IF lt(t, nextArrival) THEN Append(segs, Segment(IDLE, t, nextArrival)) ELSE segs

(* variant: the just-run process is put back at the head of the queue *)
rrRequeue_atHead(ps, queue, idx, t1, current, newRem) ==
    LET e == enqueueArrivals(t1, ps, queue, idx)
    IN [ready |-> IF gt(newRem, 0) THEN << current >> \o e.ready ELSE e.ready,
        i |-> e.i]

(* RR: after the slice, enqueue the arrivals up to the new time, then put  *)
(* the just-run process back at the tail if it has burst left              *)
rrRequeue(ps, queue, idx, t1, current, newRem) ==
    LET e == enqueueArrivals(t1, ps, queue, idx)
    IN [ready |-> IF gt(newRem, 0) THEN Append(e.ready, current) ELSE e.ready,
        i |-> e.i]

(* ---------- set-up of each policy function, up to the loop ---------- *)
CallFCFS ==
    /\ pc \in {"args", "again"} /\ algo = "FCFS"
    /\ procs' = sort(deepClone(processes), "arrival")
    /\ time' = 0 /\ segments' = <<>> /\ i' = 0
    /\ pc' = "loop"
    /\ processes' = sortInPlace(deepCloneObject(callerArray), processes, "arrival")
    /\ UNCHANGED << algo, quantum, ready, remainingBurst, iters >>
    /\ UNCHANGED outside

(* variant: the segment list is shared by all invocations instead of being *)
(* a local of each                                                         *)
CallSJF_sharedSegments ==
    /\ pc \in {"args", "again"} /\ algo = "SJF"
    /\ procs' = sort(deepClone(processes), "arrival")
    /\ time' = 0 /\ ready' = <<>> /\ i' = 0
    /\ pc' = "loop"
    /\ processes' = sortInPlace(deepCloneObject(callerArray), processes, "arrival")
    /\ UNCHANGED << algo, quantum, remainingBurst, iters, segments >>
    /\ UNCHANGED outside

CallSJF ==
    /\ pc \in {"args", "again"} /\ algo = "SJF"
    /\ procs' = sort(deepClone(processes), "arrival")
    /\ segments' = <<>> /\ time' = 0 /\ ready' = <<>> /\ i' = 0
    /\ pc' = "loop"
    /\ processes' = sortInPlace(deepCloneObject(callerArray), processes, "arrival")
    /\ UNCHANGED << algo, quantum, remainingBurst, iters >>
    /\ UNCHANGED outside

CallPriority ==
    /\ pc \in {"args", "again"} /\ algo = "PRIORITY"
    /\ procs' = sort(deepClone(processes), "arrival")
    /\ segments' = <<>> /\ time' = 0 /\ ready' = <<>> /\ i' = 0
    /\ pc' = "loop"
    /\ processes' = sortInPlace(deepCloneObject(callerArray), processes, "arrival")
    /\ UNCHANGED << algo, quantum, remainingBurst, iters >>
    /\ UNCHANGED outside

CallRoundRobin ==
    /\ pc \in {"args", "again"} /\ algo = "RR"
    /\ \E q \in (IF pc = "again" THEN {quantum} ELSE Quanta) :
          LET sorted == sort(deepClone(processes), "arrival")
              e == enqueueArrivals(0, sorted, <<>>, 0)
          IN /\ quantum' = q
             /\ procs' = sorted
             /\ remainingBurst' = newRemainingBurst(sorted)
             /\ ready' = e.ready
             /\ i' = e.i
    /\ segments' = <<>> /\ time' = 0
    /\ pc' = "loop"
    /\ processes' = sortInPlace(deepCloneObject(callerArray), processes, "arrival")
    /\ UNCHANGED << algo, iters >>
    /\ UNCHANGED outside

(* ---------- FCFS: one iteration of  for (const p of procs) ---------- *)
FCFSIter ==
    /\ pc = "loop" /\ algo = "FCFS"
    /\ i < Len(procs)
    /\ LET p == procs[i + 1]
           g == fcfsIdle(segments, time, p)
       IN /\ segments' = Append(g.segments, Segment(p.id, g.time, g.time + p.burst))
          /\ time' = g.time + p.burst
    /\ i' = i + 1
    /\ iters' = iters + 1
    /\ UNCHANGED << processes, algo, quantum, procs, ready, remainingBurst, pc >>
    /\ UNCHANGED outside

(* ---------- SJF: one iteration of the main while loop ---------- *)
SJFIter ==
    /\ pc = "loop" /\ algo = "SJF"
    /\ (i < Len(procs) \/ Len(ready) > 0)
    /\ LET m == sjfMoveArrivals(time, procs, ready, i)
       IN IF Len(m.ready) = 0
          THEN IF m.i < Len(procs)
               THEN LET nextArrival == procs[m.i + 1].arrival
                    IN /\ segments' = Append(segments, Segment(IDLE, time, nextArrival))
                       /\ time' = nextArrival
                       /\ ready' = m.ready /\ i' = m.i
                       /\ pc' = pc
               ELSE \* remaining[i] is undefined: reading .arrival throws
                    /\ pc' = "threw"
                    /\ ready' = m.ready /\ i' = m.i
                    /\ UNCHANGED << segments, time >>
          ELSE LET sorted == sjfSort(m.ready)
                   p == Head(sorted)
               IN /\ ready' = shift(sorted)
                  /\ segments' = Append(segments, Segment(p.id, time, time + p.burst))
                  /\ time' = time + p.burst
                  /\ i' = m.i
                  /\ pc' = pc
    /\ iters' = iters + 1
    /\ UNCHANGED << processes, algo, quantum, procs, remainingBurst >>
    /\ UNCHANGED outside

(* ---------- Priority: one iteration of the main while loop ---------- *)
PriorityIter ==
    /\ pc = "loop" /\ algo = "PRIORITY"
    /\ (i < Len(procs) \/ Len(ready) > 0)
    /\ LET m == prMoveArrivals(time, procs, ready, i)
       IN IF Len(m.ready) = 0
          THEN IF m.i < Len(procs)
               THEN LET nextArrival == procs[m.i + 1].arrival
                        idle == prIdle(segments, time, nextArrival)
                    IN /\ segments' = idle.segments
                       /\ time' = idle.time
                       /\ ready' = m.ready /\ i' = m.i
                       /\ pc' = pc
               ELSE /\ pc' = "threw"
                    /\ ready' = m.ready /\ i' = m.i
                    /\ UNCHANGED << segments, time >>
          ELSE LET sorted == prSort(m.ready)
                   p == Head(sorted)
               IN /\ ready' = shift(sorted)
                  /\ segments' = Append(segments, Segment(p.id, time, time + p.burst))
                  /\ time' = time + p.burst
                  /\ i' = m.i
                  /\ pc' = pc
    /\ iters' = iters + 1
    /\ UNCHANGED << processes, algo, quantum, procs, remainingBurst >>
    /\ UNCHANGED outside

(* ---------- Round Robin: one iteration of the main while loop ---------- *)
RoundRobinIter ==
    /\ pc = "loop" /\ algo = "RR"
    /\ (Len(ready) > 0 \/ i < Len(procs))
    /\ IF Len(ready) = 0
       THEN LET nextArrival == procs[i + 1].arrival
                e == enqueueArrivals(nextArrival, procs, ready, i)
            IN /\ segments' = rrIdle(segments, time, nextArrival)
               /\ time' = nextArrival
               /\ ready' = e.ready /\ i' = e.i
               /\ UNCHANGED remainingBurst
       ELSE LET current == Head(ready)
                rem == get(remainingBurst, current.id)
                slice == rrSlice(quantum, rem)
                t1 == plus(time, slice)
                newRem == minus(rem, slice)
                r == rrRequeue(procs, shift(ready), i, t1, current, newRem)
            IN /\ segments' = rrPush(segments, Segment(current.id, time, t1))
               /\ time' = t1
               /\ ready' = r.ready
               /\ i' = r.i
               /\ remainingBurst' =
                     IF gt(newRem, 0)
                     THEN set(remainingBurst, current.id, newRem)
                     ELSE delete(remainingBurst, current.id)
    /\ iters' = iters + 1
    /\ UNCHANGED << processes, algo, quantum, procs, pc >>
    /\ UNCHANGED outside

(* ---------- the loop condition is false: return segments ---------- *)
Return ==
    /\ pc = "loop"
    /\ CASE algo = "FCFS" -> i >= Len(procs)
         [] algo = "RR"   -> ~(Len(ready) > 0 \/ i < Len(procs))
         [] OTHER         -> ~(i < Len(procs) \/ Len(ready) > 0)
    /\ pc' = "done"
    /\ UNCHANGED << processes, algo, quantum, procs, i, ready, remainingBurst,
                    time, segments, iters >>
    /\ UNCHANGED outside

Next ==
    \/ setAlgo
    \/ Supply
    \/ SupplyInitial
    \/ SupplyDemo
    \/ CallFCFS
    \/ CallSJF
    \/ CallPriority
    \/ CallRoundRobin
    \/ FCFSIter
    \/ SJFIter
    \/ PriorityIter
    \/ RoundRobinIter
    \/ Return

Spec == Init /\ [][Next]_vars

(* the caller invokes the same function again, with the same arguments *)
Reinvoke ==
    /\ pc = "done"
    /\ previous = << >>
    /\ previous' = << segments >>
    /\ pc' = "again"
    /\ iters' = 0
    /\ UNCHANGED << processes, algo, quantum, procs, i, ready, remainingBurst,
                    time, segments, ticks, currentTime, running, built,
                    timerRef, speed >>

NextTwice == Next \/ Reinvoke

TwiceSpec == Init /\ [][NextTwice]_vars

(* a called function runs on: the call is synchronous, nothing else is    *)
(* scheduled between its loop iterations                                   *)
Run == FCFSIter \/ SJFIter \/ PriorityIter \/ RoundRobinIter \/ Return

FairSpec == Spec /\ WF_vars(Run)

(* ---------- process lists in which ids repeat ---------- *)
(* One more process, well-formed but for its id: the second process takes  *)
(* the id of the first, every other one has an id of its own.              *)
SupplyDuplicate ==
    /\ pc = "args"
    /\ Len(processes) < MaxProcs
    /\ \E arrival \in 0..MaxArrival, burst \in 1..MaxBurst, priority \in Priorities :
          processes' = Append(processes,
                              Proc(PidPool[IF Len(processes) = 0 THEN 1 ELSE Len(processes)],
                                   arrival, burst, priority))
    /\ UNCHANGED << algo, quantum, procs, i, ready, remainingBurst,
                    time, segments, iters, pc >>
    /\ UNCHANGED outside

NextDuplicate ==
    \/ setAlgo
    \/ SupplyDuplicate
    \/ CallFCFS
    \/ CallSJF
    \/ CallPriority
    \/ CallRoundRobin
    \/ FCFSIter
    \/ SJFIter
    \/ PriorityIter
    \/ RoundRobinIter
    \/ Return

SpecDuplicate == Init /\ [][NextDuplicate]_vars

FairSpecDuplicate == SpecDuplicate /\ WF_vars(Run)

(* ====================================================================== *)
(* The policy functions as a whole: the same set-up and loop bodies, run   *)
(* from the call to the return. The result is the returned segment list    *)
(* and whether the function threw instead of returning.                    *)
(* ====================================================================== *)
Result(segs, threw) == [segments |-> segs, threw |-> threw]

RECURSIVE fcfsLoop(_, _, _, _)
fcfsLoop(ps, idx, t, segs) ==
    IF idx >= Len(ps) THEN Result(segs, FALSE)
    ELSE LET p == ps[idx + 1]
             g == fcfsIdle(segs, t, p)
         IN fcfsLoop(ps, idx + 1, g.time + p.burst,
                     Append(g.segments, Segment(p.id, g.time, g.time + p.burst)))

scheduleFCFS(ps) == fcfsLoop(sort(deepClone(ps), "arrival"), 0, 0, <<>>)

RECURSIVE sjfLoop(_, _, _, _, _)
sjfLoop(remaining, idx, rdy, t, segs) ==
    IF ~(idx < Len(remaining) \/ Len(rdy) > 0) THEN Result(segs, FALSE)
    ELSE LET m == sjfMoveArrivals(t, remaining, rdy, idx)
         IN IF Len(m.ready) = 0
            THEN IF m.i < Len(remaining)
                 THEN LET nextArrival == remaining[m.i + 1].arrival
                      IN sjfLoop(remaining, m.i, m.ready, nextArrival,
                                 Append(segs, Segment(IDLE, t, nextArrival)))
                 ELSE Result(segs, TRUE)
            ELSE LET sorted == sjfSort(m.ready)
                     p == Head(sorted)
                 IN sjfLoop(remaining, m.i, shift(sorted), t + p.burst,
                            Append(segs, Segment(p.id, t, t + p.burst)))

scheduleSJF(ps) == sjfLoop(sort(deepClone(ps), "arrival"), 0, <<>>, 0, <<>>)

RECURSIVE prLoop(_, _, _, _, _)
prLoop(remaining, idx, rdy, t, segs) ==
    IF ~(idx < Len(remaining) \/ Len(rdy) > 0) THEN Result(segs, FALSE)
    ELSE LET m == prMoveArrivals(t, remaining, rdy, idx)
         IN IF Len(m.ready) = 0
            THEN IF m.i < Len(remaining)
                 THEN LET nextArrival == remaining[m.i + 1].arrival
                          idle == prIdle(segs, t, nextArrival)
                      IN prLoop(remaining, m.i, m.ready, idle.time, idle.segments)
                 ELSE Result(segs, TRUE)
            ELSE LET sorted == prSort(m.ready)
                     p == Head(sorted)
                 IN prLoop(remaining, m.i, shift(sorted), t + p.burst,
                           Append(segs, Segment(p.id, t, t + p.burst)))

schedulePriority(ps) == prLoop(sort(deepClone(ps), "arrival"), 0, <<>>, 0, <<>>)

RECURSIVE rrLoop(_, _, _, _, _, _, _)
rrLoop(ps, q, idx, queue, rb, t, segs) ==
    IF ~(Len(queue) > 0 \/ idx < Len(ps)) THEN Result(segs, FALSE)
    ELSE IF Len(queue) = 0
         THEN LET nextArrival == ps[idx + 1].arrival
                  e == enqueueArrivals(nextArrival, ps, queue, idx)
              IN rrLoop(ps, q, e.i, e.ready, rb, nextArrival,
                        rrIdle(segs, t, nextArrival))
         ELSE LET current == Head(queue)
                  rem == get(rb, current.id)
                  slice == rrSlice(q, rem)
                  t1 == plus(t, slice)
                  newRem == minus(rem, slice)
                  r == rrRequeue(ps, shift(queue), idx, t1, current, newRem)
              IN rrLoop(ps, q, r.i, r.ready,
                        IF gt(newRem, 0) THEN set(rb, current.id, newRem)
                                         ELSE delete(rb, current.id),
                        t1, rrPush(segs, Segment(current.id, t, t1)))

scheduleRoundRobin(ps, q) ==
    LET sorted == sort(deepClone(ps), "arrival")
        e == enqueueArrivals(0, sorted, <<>>, 0)
    IN rrLoop(sorted, q, e.i, e.ready, newRemainingBurst(sorted), 0, <<>>)

(* the switch of buildSchedule over the selected policy *)
schedule(a, ps, q) ==
    CASE a = "FCFS" -> scheduleFCFS(ps)
      [] a = "SJF" -> scheduleSJF(ps)
      [] a = "PRIORITY" -> schedulePriority(ps)
      [] a = "RR" -> scheduleRoundRobin(ps, q)
      [] OTHER -> Result(<<>>, FALSE)

(* ====================================================================== *)
(* The component: process list, controls, build                            *)
(* ====================================================================== *)
(* Math.max: NaN as soon as one operand is not a number *)
max(a, b) == IF isNumber(a) /\ isNumber(b) THEN (IF a >= b THEN a ELSE b) ELSE NaN

(* variant: Math.floor(Number(v)), without the fallback to 0 *)
toInt_noFallback(v) == v

(* Math.floor(Number(v) || 0): what is typed is an integer or not a number *)
toInt(v) == IF isNumber(v) THEN v ELSE 0

(* variant: the lower limit is not applied *)
clampInt_noMin(v, lo, hi) == IF hi <= toInt(v) THEN hi ELSE toInt(v)

clampInt(v, lo, hi) == max(lo, min(hi, toInt(v)))

(* what is typed into a number field of the form: nothing numeric, a       *)
(* negative number, or zero                                                *)
RawNumbers == {NaN, 0 - 3, 0}

(* what is typed into the quantum field *)
RawQuanta == RawNumbers \cup (1..MaxQuantum)

(* what can be typed into the id field *)
RawIds == {"", " ", " P1 ", "IDLE"}

(* String.prototype.trim on the typed ids *)
trim(raw) ==
    CASE raw = " " -> ""
      [] raw = " P1 " -> "P1"
      [] OTHER -> raw

(* variant: the check for an id already present is left out *)
some_never(ps, id) == FALSE

(* processes.some(x => x.id === id) *)
some(ps, id) == \E k \in 1..Len(ps) : ps[k].id = id

(* list.map(p => ({ ...p })) *)
mergeSamePid(list) == [k \in 1..Len(list) |-> list[k]]

(* variant: the end of the segment is taken as part of it *)
segmentsToTicks_inclusiveEnd(segs) ==
    LET maxT == IF Len(segs) > 0 THEN segs[Len(segs)].end ELSE 0
        find(t) == {k \in 1..Len(segs) : le(segs[k].start, t) /\ le(t, segs[k].end)}
        first(t) == CHOOSE k \in find(t) : \A m \in find(t) : k <= m
    IN IF lt(0, maxT)
       THEN [n \in 1..maxT |-> IF find(n - 1) # {} THEN segs[first(n - 1)].pid ELSE IDLE]
       ELSE << >>

(* element n of the result is tick t = n - 1 *)
segmentsToTicks(segs) ==
    LET maxT == IF Len(segs) > 0 THEN segs[Len(segs)].end ELSE 0
        find(t) == {k \in 1..Len(segs) : le(segs[k].start, t) /\ lt(t, segs[k].end)}
        first(t) == CHOOSE k \in find(t) : \A m \in find(t) : k <= m
    IN IF lt(0, maxT)
       THEN [n \in 1..maxT |-> IF find(n - 1) # {} THEN segs[first(n - 1)].pid ELSE IDLE]
       ELSE << >>

(* variant: the first segment bearing the id sets the finish time *)
finish_first(segs, id) ==
    LET own == {k \in 1..Len(segs) : segs[k].pid # IDLE /\ segs[k].pid = id}
    IN IF own = {} THEN 0
       ELSE segs[CHOOSE k \in own : \A m \in own : k <= m].end

(* finish[id] after the loop over the segments: the end of the last        *)
(* segment bearing the id, idle segments skipped; ?? 0 when there is none  *)
finish(segs, id) ==
    LET own == {k \in 1..Len(segs) : segs[k].pid # IDLE /\ segs[k].pid = id}
    IN IF own = {} THEN 0
       ELSE segs[CHOOSE k \in own : \A m \in own : m <= k].end

RECURSIVE totalTAT(_, _)
totalTAT(ps, segs) ==
    IF ps = << >> THEN 0
    ELSE minus(finish(segs, Head(ps).id), Head(ps).arrival) + totalTAT(Tail(ps), segs)

RECURSIVE totalWT(_, _)
totalWT(ps, segs) ==
    IF ps = << >> THEN 0
    ELSE (minus(finish(segs, Head(ps).id), Head(ps).arrival) - Head(ps).burst)
         + totalWT(Tail(ps), segs)

(* variant: the divisor is the length itself *)
divisor_length(n) == n

(* processes.length || 1 *)
divisor(n) == IF n = 0 THEN 1 ELSE n

(* +(total / n).toFixed(2), as a number of hundredths: the nearest          *)
(* hundredth, a half rounded away from zero; NaN for 0 / 0                 *)
toFixed2(total, n) ==
    IF n = 0 THEN NaN
    ELSE LET a == IF total < 0 THEN 0 - total ELSE total
             q == (100 * a) \div n
             r == (100 * a) % n
             h == IF 2 * r >= n THEN q + 1 ELSE q
         IN IF total < 0 THEN 0 - h ELSE h

Metrics(w, t) == [avgWaiting |-> w, avgTurnaround |-> t]

(* the averages in hundredths: 150 is 1.5 *)
computeMetrics(ps, segs) ==
    LET n == divisor(Len(ps))
    IN Metrics(toFixed2(totalWT(ps, segs), n), toFixed2(totalTAT(ps, segs), n))

(* useMemo over [processes, segments] *)
metrics == computeMetrics(processes, segments)

(* the state a policy function works on, which the component never touches *)
inside == << procs, i, ready, remainingBurst, time, iters, pc, previous >>

InitUI ==
    /\ processes = InitialProcesses
    /\ algo = "FCFS"
    /\ quantum = InitialQuantum
    /\ segments = << >>
    /\ ticks = << >>
    /\ currentTime = 0
    /\ running = FALSE
    /\ built = << >>
    /\ timerRef = << >>
    /\ speed = InitialSpeed
    /\ procs = << >> /\ i = 0 /\ ready = << >> /\ remainingBurst = << >>
    /\ time = 0 /\ iters = 0 /\ previous = << >>
    /\ pc = "ui"

setQuantum ==
    /\ pc = "ui"
    /\ algo = "RR"
    /\ \E q \in {clampInt(v, 1, 1000) : v \in RawQuanta} : quantum' = q
    /\ UNCHANGED << processes, algo, segments, ticks, currentTime, running, built >>
    /\ UNCHANGED << timerRef, speed >>
    /\ UNCHANGED inside

(* Math.max(1, quantum): the quantum buildSchedule passes to round robin *)
passedQuantum == max(1, quantum)

buildSchedule ==
    /\ pc = "ui"
    /\ IF Len(processes) = 0
       THEN /\ segments' = << >>
            /\ ticks' = << >>
            /\ currentTime' = 0
            /\ running' = FALSE
       ELSE LET sanitized == mergeSamePid(processes)
                r == schedule(algo, sanitized, passedQuantum)
            IN IF r.threw
               THEN UNCHANGED << segments, ticks, currentTime, running >>
               ELSE /\ segments' = r.segments
                    /\ ticks' = segmentsToTicks(r.segments)
                    /\ currentTime' = 0
                    /\ running' = FALSE
    /\ built' = << processes >>
    /\ UNCHANGED << processes, algo, quantum, timerRef, speed >>
    /\ UNCHANGED inside

(* the form's Add button followed by onAddProcess *)
onAddProcess ==
    /\ pc = "ui"
    /\ \E id \in {trim(raw) : raw \in RawIds},
          arrival \in {clampInt(v, 0, 9999) : v \in RawNumbers},
          burst \in {clampInt(v, 1, 9999) : v \in RawNumbers},
          priority \in {clampInt(v, 1, 9999) : v \in RawNumbers} :
          LET canAdd == id # "" /\ burst > 0
          IN /\ canAdd
             /\ processes' = IF some(processes, id)
                             THEN processes
                             ELSE Append(processes, Proc(id, arrival, burst, priority))
    /\ UNCHANGED << algo, quantum, segments, ticks, currentTime, running, built >>
    /\ UNCHANGED << timerRef, speed >>
    /\ UNCHANGED inside

onRemoveProcess ==
    /\ pc = "ui"
    /\ \E k \in 1..Len(processes) :
          processes' = SelectSeq(processes, LAMBDA p : p.id # processes[k].id)
    /\ UNCHANGED << algo, quantum, segments, ticks, currentTime, running, built >>
    /\ UNCHANGED << timerRef, speed >>
    /\ UNCHANGED inside

onClear ==
    /\ pc = "ui"
    /\ processes' = << >>
    /\ UNCHANGED << algo, quantum, segments, ticks, currentTime, running, built >>
    /\ UNCHANGED << timerRef, speed >>
    /\ UNCHANGED inside

onLoadDemo ==
    /\ pc = "ui"
    /\ processes' = DemoProcesses
    /\ UNCHANGED << algo, quantum, segments, ticks, currentTime, running, built >>
    /\ UNCHANGED << timerRef, speed >>
    /\ UNCHANGED inside

NextUI ==
    \/ setAlgo
    \/ setQuantum
    \/ buildSchedule
    \/ onAddProcess
    \/ onRemoveProcess
    \/ onClear
    \/ onLoadDemo

SpecUI == InitUI /\ [][NextUI]_vars

(* ====================================================================== *)
(* The component: playback                                                 *)
(* ====================================================================== *)
(* variant: the end of the first segment *)
makespan_firstEnd == IF Len(segments) # 0 THEN segments[1].end ELSE 0

(* useMemo over [segments]: the displayed makespan *)
makespan == IF Len(segments) # 0 THEN segments[Len(segments)].end ELSE 0

(* the Play and Step buttons are disabled unless canPlay *)
canPlay == Len(segments) > 0 /\ Len(ticks) > 0

(* what is typed into the speed field *)
RawSpeeds == RawNumbers \cup {InitialSpeed}

(* timerRef.current after stopTimer(): the interval, if any, is cleared *)
stopTimer == << >>

(* variant: startTimer clears the old interval and sets no new one *)
startTimer_noInterval(tk) == stopTimer

(* timerRef.current after startTimer() in a render whose tick sequence is  *)
(* tk: the old interval is cleared, and unless tk is empty a new interval  *)
(* is set whose callback closes over tk                                    *)
startTimer(tk) == IF Len(tk) = 0 THEN stopTimer ELSE << Len(tk) >>

(* Play / Pause. pc' = "watch" stands for the user pressing Play and then  *)
(* leaving every control alone: only the interval callback runs from there *)
onPlayPause ==
    /\ pc = "ui"
    /\ canPlay
    /\ Len(ticks) # 0
    /\ IF running
       THEN /\ timerRef' = stopTimer
            /\ running' = FALSE
            /\ pc' = "ui"
       ELSE /\ running' = TRUE
            /\ timerRef' = startTimer(ticks)
            /\ pc' \in {"ui", "watch"}
    /\ UNCHANGED << processes, algo, quantum, segments, ticks, currentTime, built, speed >>
    /\ UNCHANGED << procs, i, ready, remainingBurst, time, iters, previous >>

onStep ==
    /\ pc = "ui"
    /\ canPlay
    /\ Len(ticks) # 0
    /\ timerRef' = stopTimer
    /\ running' = FALSE
    /\ currentTime' = min(currentTime + 1, Len(ticks))
    /\ UNCHANGED << processes, algo, quantum, segments, ticks, built, speed >>
    /\ UNCHANGED inside

onReset ==
    /\ pc = "ui"
    /\ timerRef' = stopTimer
    /\ running' = FALSE
    /\ currentTime' = 0
    /\ UNCHANGED << processes, algo, quantum, segments, ticks, built, speed >>
    /\ UNCHANGED inside

(* the speed field, then the effect that depends on [speed]: it runs when  *)
(* the stored speed has changed and restarts the timer if running          *)
setSpeed ==
    /\ pc = "ui"
    /\ \E s \in {clampInt(v, 50, 2000) : v \in RawSpeeds} \ {speed} : speed' = s
    /\ timerRef' = IF running THEN startTimer(ticks) ELSE timerRef
    /\ UNCHANGED << processes, algo, quantum, segments, ticks, currentTime, running, built >>
    /\ UNCHANGED inside

(* one firing of the interval: the updater passed to setCurrentTime, with  *)
(* the tick sequence its closure holds                                     *)
intervalCallback ==
    /\ pc \in {"ui", "watch"}
    /\ timerRef # << >>
    /\ LET length == timerRef[1]
       IN IF currentTime + 1 >= length
          THEN /\ timerRef' = stopTimer
               /\ currentTime' = length
          ELSE /\ currentTime' = currentTime + 1
               /\ UNCHANGED timerRef
    /\ UNCHANGED << processes, algo, quantum, segments, ticks, running, built, speed >>
    /\ UNCHANGED inside

NextPlayback ==
    \/ setAlgo
    \/ setQuantum
    \/ buildSchedule
    \/ onClear
    \/ onLoadDemo
    \/ onPlayPause
    \/ onStep
    \/ onReset
    \/ setSpeed
    \/ intervalCallback

SpecPlayback == InitUI /\ [][NextPlayback]_vars

(* the browser keeps firing a live interval *)
FairSpecPlayback == SpecPlayback /\ WF_vars(intervalCallback)

(* ====================================================================== *)
(* Properties                                                              *)
(* ====================================================================== *)
Returned == pc = "done"

NonPreemptive == algo \in {"FCFS", "SJF", "PRIORITY"}

(* index in the caller's list of the process with the given id *)
IndexOf(id) == CHOOSE k \in 1..Len(processes) : processes[k].id = id

ProcessOf(id) == processes[IndexOf(id)]

SegmentsOf(id) == {k \in 1..Len(segments) : segments[k].pid = id}

RECURSIVE Duration(_, _)
Duration(id, segs) ==
    IF segs = <<>> THEN 0
    ELSE (IF Head(segs).pid = id THEN Head(segs).end - Head(segs).start ELSE 0)
         + Duration(id, Tail(segs))

HasIdle == \E k \in 1..Len(segments) : segments[k].pid = IDLE

(* C1 Coverage: for a non-empty process list the returned segment list of  *)
(* every policy starts at time 0 and is contiguous: each segment ends      *)
(* where the next one starts, and no segment runs backwards, so the        *)
(* segments partition [0, makespan) without gap or overlap.                *)
C1_Coverage ==
    (Returned /\ Len(processes) > 0) =>
        /\ Len(segments) > 0
        /\ segments[1].start = 0
        /\ \A k \in 1..(Len(segments) - 1) : segments[k].end = segments[k + 1].start
        /\ \A k \in 1..Len(segments) : segments[k].start < segments[k].end
        /\ segments[Len(segments)].end = time

(* a returned list with an idle gap between two process segments *)
C1_Witness ==
    /\ Returned
    /\ \E k \in 2..(Len(segments) - 1) :
          /\ segments[k].pid = IDLE
          /\ segments[k - 1].pid # IDLE
          /\ segments[k + 1].pid # IDLE

(* C2 Conservation: in the returned list of every policy, the durations of  *)
(* the segments bearing a process's id add up to exactly its burst.        *)
C2_Conservation ==
    Returned =>
        \A k \in 1..Len(processes) :
            Duration(processes[k].id, segments) = processes[k].burst

(* a round-robin result in which some process ran in several slices *)
C2_Witness ==
    /\ Returned /\ algo = "RR"
    /\ \E k \in 1..Len(processes) : Cardinality(SegmentsOf(processes[k].id)) >= 2

(* C3 No-early-start: a non-idle segment never starts before the arrival   *)
(* of the process whose id it bears.                                       *)
C3_NoEarlyStart ==
    \A k \in 1..Len(segments) :
        segments[k].pid # IDLE =>
            segments[k].start >= ProcessOf(segments[k].pid).arrival

(* a process that started exactly at its arrival, right after an idle gap *)
C3_Witness ==
    /\ Returned
    /\ \E k \in 2..Len(segments) :
          /\ segments[k - 1].pid = IDLE
          /\ segments[k].pid # IDLE
          /\ segments[k].start = ProcessOf(segments[k].pid).arrival
          /\ segments[k].start > 0

(* C4 Non-preemption: under FCFS, SJF and Priority a process id never has   *)
(* more than one segment, that segment has the length of the full burst,   *)
(* and in the returned list every process has its segment.                 *)
C4_NonPreemption ==
    NonPreemptive =>
        /\ \A k \in 1..Len(processes) :
              LET own == SegmentsOf(processes[k].id)
              IN /\ Cardinality(own) <= 1
                 /\ \A m \in own :
                       segments[m].end - segments[m].start = processes[k].burst
                 /\ Returned => Cardinality(own) = 1

(* a process with a shorter burst (SJF) or a better priority (Priority)    *)
(* arrived strictly inside the segment of the running process              *)
C4_Witness ==
    /\ Returned /\ algo \in {"SJF", "PRIORITY"}
    /\ \E k \in 1..Len(segments) : \E j \in 1..Len(processes) :
          /\ segments[k].pid # IDLE
          /\ segments[k].start < processes[j].arrival
          /\ processes[j].arrival < segments[k].end
          /\ IF algo = "SJF"
             THEN processes[j].burst < ProcessOf(segments[k].pid).burst
             ELSE processes[j].priority < ProcessOf(segments[k].pid).priority

(* C5 Round-robin requeue ordering: a slice that moves the cursor from t0   *)
(* to t1 leaves the queue as: the rest of the old queue, then the          *)
(* processes with arrival in (t0, t1] in arrival order, then the process   *)
(* that just ran, present only if it still has burst left. For             *)
(* P1(0,4), P2(1,3), P3(2,6) with q = 2 the returned list is               *)
(* P1:0-2, P2:2-4, P3:4-6, P1:6-8, P2:8-9, P3:9-11, P3:11-13.              *)
C5_SliceStep ==
    (pc = "loop" /\ algo = "RR" /\ Len(ready) > 0 /\ iters' = iters + 1) =>
        LET t0 == time
            t1 == time'
            current == Head(ready)
            arrived == SelectSeq(procs, LAMBDA p : t0 < p.arrival /\ p.arrival <= t1)
            left == Duration(current.id, segments') < current.burst
        IN ready' = Tail(ready) \o arrived \o (IF left THEN <<current>> ELSE <<>>)

C5_Scenario ==
    (Returned /\ algo = "RR" /\ quantum = 2 /\ processes = InitialProcesses) =>
        segments = << Segment("P1", 0, 2), Segment("P2", 2, 4), Segment("P3", 4, 6),
                      Segment("P1", 6, 8), Segment("P2", 8, 9), Segment("P3", 9, 11),
                      Segment("P3", 11, 13) >>

C5_RequeueOrder == [][C5_SliceStep]_vars /\ []C5_Scenario

(* after a slice: a process that arrived exactly at the quantum boundary    *)
(* sits in the queue right in front of the requeued process that just ran  *)
C5_Witness ==
    /\ pc = "loop" /\ algo = "RR" /\ time > 0
    /\ Len(ready) >= 2 /\ Len(segments) > 0
    /\ ready[Len(ready)].id = segments[Len(segments)].pid
    /\ ready[Len(ready) - 1].arrival = time

(* C6 Round-robin slice bound: a non-idle round-robin segment is never      *)
(* longer than q, and one shorter than q is the last segment of its        *)
(* process: with it the process has received its whole burst.              *)
C6_SliceBound ==
    algo = "RR" =>
        \A k \in 1..Len(segments) :
            LET g == segments[k]
            IN g.pid # IDLE =>
                  /\ g.end - g.start <= quantum
                  /\ g.end - g.start < quantum =>
                        /\ \A m \in (k + 1)..Len(segments) : segments[m].pid # g.pid
                        /\ Duration(g.pid, SubSeq(segments, 1, k)) = ProcessOf(g.pid).burst

(* a process that ran full slices and then a final slice shorter than q *)
C6_Witness ==
    /\ Returned /\ algo = "RR"
    /\ \E k \in 1..Len(segments) :
          /\ segments[k].pid # IDLE
          /\ segments[k].end - segments[k].start < quantum
          /\ \E m \in 1..(k - 1) : segments[m].pid = segments[k].pid

(* the processes that have arrived by the start of segment k and have no   *)
(* segment before it, as indices into the caller's list                    *)
Candidates(k) ==
    {j \in 1..Len(processes) :
        /\ processes[j].arrival <= segments[k].start
        /\ \A m \in 1..(k - 1) : segments[m].pid # processes[j].id}

LexLE(a, b) ==
    \/ a[1] < b[1]
    \/ a[1] = b[1] /\ a[2] < b[2]
    \/ a[1] = b[1] /\ a[2] = b[2] /\ a[3] <= b[3]

(* C7 SJF selection: the process of every non-idle SJF segment is, among    *)
(* the arrived processes that have not run, the one with the least burst,  *)
(* then the earliest arrival, then the earliest position in the input.     *)
C7_SJFSelection ==
    algo = "SJF" =>
        \A k \in 1..Len(segments) :
            segments[k].pid # IDLE =>
                LET c == IndexOf(segments[k].pid)
                IN /\ c \in Candidates(k)
                   /\ \A j \in Candidates(k) :
                         LexLE(<<processes[c].burst, processes[c].arrival, c>>,
                               <<processes[j].burst, processes[j].arrival, j>>)

(* the chosen process overtook a candidate that arrived earlier but has a   *)
(* longer burst                                                            *)
C7_Witness ==
    /\ Returned /\ algo = "SJF"
    /\ \E k \in 1..Len(segments) :
          /\ segments[k].pid # IDLE
          /\ \E j \in Candidates(k) :
                /\ processes[j].burst > ProcessOf(segments[k].pid).burst
                /\ processes[j].arrival < ProcessOf(segments[k].pid).arrival

NonIdle == SelectSeq(segments, LAMBDA g : g.pid # IDLE)

(* the FCFS cursor in front of segment k: the end of the last process      *)
(* segment before it, 0 if there is none                                   *)
CursorBefore(k) ==
    LET before == {m \in 1..(k - 1) : segments[m].pid # IDLE}
    IN IF before = {} THEN 0
       ELSE segments[CHOOSE m \in before : \A n \in before : n <= m].end

(* C9 FCFS order: the non-idle segments of the returned FCFS list are the   *)
(* processes in ascending arrival, equal arrivals in input order; an idle  *)
(* segment [cursor, arrival) stands in front of a process exactly when the *)
(* cursor is below its arrival.                                            *)
C9_FCFSOrder ==
    (Returned /\ algo = "FCFS") =>
        /\ Len(NonIdle) = Len(processes)
        /\ \A a, b \in 1..Len(NonIdle) :
              a < b =>
                 LET ia == IndexOf(NonIdle[a].pid)
                     ib == IndexOf(NonIdle[b].pid)
                 IN \/ processes[ia].arrival < processes[ib].arrival
                    \/ processes[ia].arrival = processes[ib].arrival /\ ia < ib
        /\ \A k \in 1..Len(segments) :
              IF segments[k].pid = IDLE
              THEN k < Len(segments) /\ segments[k + 1].pid # IDLE
              ELSE LET arr == ProcessOf(segments[k].pid).arrival
                   IN IF CursorBefore(k) < arr
                      THEN k > 1 /\ segments[k - 1] = Segment(IDLE, CursorBefore(k), arr)
                      ELSE k = 1 \/ segments[k - 1].pid # IDLE

(* the sort moved a later input in front of an earlier one, and an idle    *)
(* gap precedes the first process                                          *)
C9_Witness ==
    /\ Returned /\ algo = "FCFS" /\ HasIdle
    /\ Len(processes) >= 2
    /\ processes[1].arrival > processes[2].arrival

(* C10 Termination: every called policy function returns and never throws; *)
(* each iteration of the SJF, Priority and round-robin main loop strictly  *)
(* increases the time cursor, and the pending index never decreases.       *)
C10_Termination ==
    /\ (pc = "loop") ~> Returned
    /\ [](pc # "threw")
    /\ [][(iters' = iters + 1 /\ algo # "FCFS") => time' > time]_vars
    /\ [][i' >= i]_vars

(* a returned SJF, Priority or round-robin run that took an idle jump      *)
C10_Witness ==
    /\ Returned /\ algo # "FCFS" /\ HasIdle
    /\ iters >= 4 /\ i = Len(procs)

(* C11 Determinism: a second invocation of the same policy function on the *)
(* same process list (same order, same quantum) returns a segment list     *)
(* identical to the first one's; nothing an invocation wrote is seen by    *)
(* the next: the loop of the second invocation starts from the same        *)
(* cursor, index and empty segment list.                                   *)
C11_Determinism ==
    /\ (Returned /\ previous # << >>) => segments = previous[1]
    /\ (pc = "loop" /\ previous # << >> /\ iters = 0) =>
          /\ time = 0 /\ segments = << >>
          /\ procs = sort(processes, "arrival")
          /\ algo \in {"SJF", "PRIORITY"} => (ready = << >> /\ i = 0)
          /\ algo = "FCFS" => i = 0

(* a second round-robin invocation returned, after slices and a requeue *)
C11_Witness ==
    /\ Returned /\ previous # << >>
    /\ Len(segments) >= 3
    /\ \E k \in 1..Len(processes) : Cardinality(SegmentsOf(processes[k].id)) >= 2

(* C12 No input mutation: no step of a policy function, from its call to   *)
(* its return, changes the caller's process list: the order of the         *)
(* elements and every field of every process stay as they were.            *)
C12_NoInputMutation ==
    [][(pc' \in {"loop", "done", "threw"}) => processes' = processes]_vars

(* a function returned whose sorted copy differs from the caller's list *)
C12_Witness ==
    /\ Returned
    /\ procs # processes
    /\ Len(processes) >= 2
    /\ processes[1].arrival > processes[2].arrival

LastEnd(segs) == IF Len(segs) = 0 THEN 0 ELSE segs[Len(segs)].end

(* C13 Tick expansion: the tick sequence of the stored segment list has    *)
(* the length of the last segment's end (0 for the empty list), and its    *)
(* element for tick t is the pid of the segment with start <= t < end,     *)
(* of which there is exactly one.                                          *)
C13_TickExpansion ==
    /\ Len(ticks) = LastEnd(segments)
    /\ \A t \in 0..(Len(ticks) - 1) :
          LET at == {k \in 1..Len(segments) :
                        segments[k].start <= t /\ t < segments[k].end}
          IN /\ Cardinality(at) = 1
             /\ \A k \in at : ticks[t + 1] = segments[k].pid

(* ticks of a built run that starts with an idle gap and changes process   *)
C13_Witness ==
    /\ Len(ticks) >= 4
    /\ ticks[1] = IDLE
    /\ \E t \in 2..(Len(ticks) - 1) :
          ticks[t] # IDLE /\ ticks[t + 1] # IDLE /\ ticks[t] # ticks[t + 1]

(* the highest end among the non-idle segments bearing the id, 0 if none *)
MaxEnd(id) ==
    LET own == {k \in 1..Len(segments) : segments[k].pid # IDLE /\ segments[k].pid = id}
    IN IF own = {} THEN 0
       ELSE CHOOSE e \in {segments[k].end : k \in own} :
                \A k \in own : segments[k].end <= e

RECURSIVE TurnaroundSum(_)
TurnaroundSum(n) ==
    IF n = 0 THEN 0
    ELSE (MaxEnd(processes[n].id) - processes[n].arrival) + TurnaroundSum(n - 1)

RECURSIVE WaitingSum(_)
WaitingSum(n) ==
    IF n = 0 THEN 0
    ELSE ((MaxEnd(processes[n].id) - processes[n].arrival) - processes[n].burst)
         + WaitingSum(n - 1)

Abs(x) == IF x < 0 THEN 0 - x ELSE x

(* h hundredths is total / n rounded to 2 decimals: no hundredth is nearer *)
IsRounded(h, total, n) == 2 * Abs(100 * total - h * n) <= n

(* C14 Metrics: when the stored segment list is the run over the current   *)
(* process list, the averages are the sums of turnaround (highest end of   *)
(* the process's non-idle segments minus arrival) and of waiting           *)
(* (turnaround minus burst) divided by the number of processes, rounded    *)
(* to 2 decimals; for [P1:0-4, P2:4-7] and P1(0,4), P2(1,3) they are       *)
(* 1.5 and 5.0 (150 and 500 hundredths).                                   *)
C14_Metrics ==
    /\ (built = << processes >> /\ Len(processes) > 0) =>
          /\ IsRounded(metrics.avgWaiting, WaitingSum(Len(processes)), Len(processes))
          /\ IsRounded(metrics.avgTurnaround, TurnaroundSum(Len(processes)),
                       Len(processes))
    /\ (/\ Len(processes) = 2
        /\ processes[1].id = "P1" /\ processes[1].arrival = 0 /\ processes[1].burst = 4
        /\ processes[2].id = "P2" /\ processes[2].arrival = 1 /\ processes[2].burst = 3
        /\ segments = << Segment("P1", 0, 4), Segment("P2", 4, 7) >>) =>
          metrics = Metrics(150, 500)

(* metrics of a run in which a process has several segments (round robin)  *)
(* and an average that is not a whole number                               *)
C14_Witness ==
    /\ built = << processes >>
    /\ Len(processes) = 3
    /\ \E k \in 1..Len(processes) : Cardinality(SegmentsOf(processes[k].id)) >= 2
    /\ metrics.avgWaiting % 100 # 0

(* C15 Empty input: every policy function returns the empty segment list   *)
(* for the empty process list and does not throw, segmentsToTicks of the   *)
(* empty list is empty, computeMetrics of the empty list gives 0 for both  *)
(* averages, and a build over the empty process list stores empty          *)
(* segments and ticks.                                                     *)
C15_EmptyInput ==
    /\ \A a \in Algos : \A q \in Quanta :
          schedule(a, << >>, q) = Result(<< >>, FALSE)
    /\ segmentsToTicks(<< >>) = << >>
    /\ computeMetrics(<< >>, << >>) = Metrics(0, 0)
    /\ built = << << >> >> => (segments = << >> /\ ticks = << >>)
    /\ (processes = << >> /\ segments = << >>) => metrics = Metrics(0, 0)

(* the list was cleared and a build was requested *)
C15_Witness ==
    /\ built = << << >> >>
    /\ processes = << >>
    /\ segments = << >> /\ ticks = << >>

HasDuplicateIds ==
    \E j, k \in 1..Len(processes) : j # k /\ processes[j].id = processes[k].id

RECURSIVE SumOf(_, _)
SumOf(m, keys) ==
    IF keys = {} THEN 0
    ELSE LET k == CHOOSE x \in keys : TRUE
         IN m[k] + SumOf(m, keys \ {k})

(* what the round-robin loop still has to do: pending processes, queued    *)
(* processes and burst left in the map                                     *)
Measure ==
    2 * (Len(procs) - i) + Len(ready) + 2 * SumOf(remainingBurst, DOMAIN remainingBurst)

(* C16 Duplicate ids do not crash the engine: on a process list in which   *)
(* ids repeat every called policy function returns and never throws; each  *)
(* round-robin iteration reduces what is left to do, also when the map     *)
(* holds no remaining burst for the process at the head of the queue.      *)
C16_DuplicateIdsNoCrash ==
    /\ (pc = "loop") ~> Returned
    /\ [](pc # "threw")
    /\ [][(algo = "RR" /\ iters' = iters + 1) => Measure' < Measure]_vars

(* a round-robin run over repeated ids returned although the map had no    *)
(* entry left for a queued process: a segment with end NaN was emitted     *)
C16_Witness ==
    /\ Returned /\ algo = "RR"
    /\ HasDuplicateIds
    /\ \E k \in 1..Len(segments) : segments[k].end = NaN

(* C17 Reserved idle id: no process of the process list has the id "IDLE". *)
C17_ReservedIdleId ==
    \A k \in 1..Len(processes) : processes[k].id # IDLE

(* C18 Outputs change only on build: after a build the metrics are those   *)
(* of the process list that build read, whatever was added, removed,       *)
(* cleared or loaded since, and the ticks are those of the stored          *)
(* segment list.                                                           *)
C18_OutputsOnlyOnBuild ==
    built # << >> =>
        /\ metrics = computeMetrics(built[1], segments)
        /\ ticks = segmentsToTicks(segments)

ValidProcessSet ==
    \A k \in 1..Len(processes) :
        /\ processes[k].id # ""
        /\ processes[k].arrival \in Nat
        /\ processes[k].burst \in Nat /\ processes[k].burst >= 1
        /\ \A j \in 1..Len(processes) : j # k => processes[j].id # processes[k].id

(* C19 Process-set validity: the process list always has pairwise distinct *)
(* non-empty ids, integer arrivals >= 0 and integer bursts >= 1; a step    *)
(* that appends a process appends one whose id was not present.            *)
C19_ProcessSetValid ==
    /\ []ValidProcessSet
    /\ [][(/\ Len(processes') = Len(processes) + 1
           /\ SubSeq(processes', 1, Len(processes)) = processes) =>
             ~some(processes, processes'[Len(processes')].id)]_vars

(* a process added through the form, its fields at the clamped values,     *)
(* stands in the list next to another one                                  *)
C19_Witness ==
    /\ pc = "ui"
    /\ Len(processes) >= 2
    /\ processes[Len(processes)] = Proc("P1", 0, 1, 1)

(* C20 Segment well-formedness: every segment a policy has appended, idle  *)
(* segments included, has a start >= 0 and an end > start, both numbers;   *)
(* there is no idle segment of length zero.                                *)
C20_SegmentWellFormed ==
    \A k \in 1..Len(segments) :
        /\ isNumber(segments[k].start) /\ isNumber(segments[k].end)
        /\ segments[k].start \in Nat /\ segments[k].end \in Nat
        /\ segments[k].start >= 0
        /\ segments[k].end > segments[k].start

(* the cursor met a process exactly at its arrival: no idle segment stands  *)
(* between two process segments that touch at that arrival                 *)
C20_Witness ==
    /\ Returned
    /\ \E k \in 2..Len(segments) :
          /\ segments[k].pid # IDLE /\ segments[k - 1].pid # IDLE
          /\ ProcessOf(segments[k].pid).arrival = segments[k].start

Ceil(b, q) == (b + q - 1) \div q

(* C22 Round robin never merges slices: in the returned round-robin list a  *)
(* process with burst b has exactly ceil(b / q) segments, also when it is  *)
(* dequeued again right after its own slice; a lone process P(0,4) with    *)
(* q = 2 yields [P:0-2, P:2-4].                                            *)
C22_NoMergedSlices ==
    /\ (Returned /\ algo = "RR") =>
          \A k \in 1..Len(processes) :
              Cardinality(SegmentsOf(processes[k].id))
                  = Ceil(processes[k].burst, quantum)
    /\ scheduleRoundRobin(<< Proc("P", 0, 4, 1) >>, 2)
          = Result(<< Segment("P", 0, 2), Segment("P", 2, 4) >>, FALSE)

(* two adjacent segments of the returned list bear the same pid *)
C22_Witness ==
    /\ Returned /\ algo = "RR"
    /\ \E k \in 1..(Len(segments) - 1) :
          /\ segments[k].pid # IDLE
          /\ segments[k].pid = segments[k + 1].pid
          /\ segments[k].end = segments[k + 1].start

(* the arrivals of the caller's processes that lie after time s *)
LaterArrivals(s) ==
    {processes[k].arrival : k \in {m \in 1..Len(processes) : processes[m].arrival > s}}

Minimum(S) == CHOOSE x \in S : \A y \in S : x <= y

(* C23 Idle only when nothing is ready: in the list each of the four       *)
(* policies returns, an IDLE segment [s, e) stands only where every        *)
(* process with arrival <= s has already received its full burst by s,     *)
(* e is the smallest arrival among the processes not yet arrived, and the  *)
(* next segment is not IDLE.                                               *)
C23_IdleOnlyWhenNothingReady ==
    Returned =>
        \A k \in 1..Len(segments) :
            segments[k].pid = IDLE =>
                /\ \A m \in 1..Len(processes) :
                      processes[m].arrival <= segments[k].start =>
                          Duration(processes[m].id, SubSeq(segments, 1, k - 1))
                              = processes[m].burst
                /\ LaterArrivals(segments[k].start) # {}
                /\ segments[k].end = Minimum(LaterArrivals(segments[k].start))
                /\ k < Len(segments) => segments[k + 1].pid # IDLE

(* an idle segment stands after a process that completed, while another    *)
(* process has not arrived yet                                             *)
C23_Witness ==
    /\ Returned
    /\ \E k \in 2..(Len(segments) - 1) :
          /\ segments[k].pid = IDLE
          /\ segments[k - 1].pid # IDLE
          /\ segments[k].start > 0

(* segments a and b are two consecutive segments of the same process *)
ConsecutiveOf(a, b) ==
    /\ a < b
    /\ segments[a].pid # IDLE
    /\ segments[a].pid = segments[b].pid
    /\ \A k \in (a + 1)..(b - 1) : segments[k].pid # segments[a].pid

(* the segments strictly between a and b that bear the given pid *)
Between(a, b, id) == {k \in (a + 1)..(b - 1) : segments[k].pid = id}

(* C24 Round-robin FIFO fairness: between two consecutive segments of the  *)
(* same process, the first ending at t, every other process with arrival   *)
(* <= t that is not complete at t runs exactly one segment, and no process *)
(* with arrival > t runs.                                                  *)
C24_FifoFairness ==
    (Returned /\ algo = "RR") =>
        \A a, b \in 1..Len(segments) :
            ConsecutiveOf(a, b) =>
                \A m \in 1..Len(processes) :
                    LET o == processes[m]
                        t == segments[a].end
                    IN o.id # segments[a].pid =>
                          /\ (o.arrival <= t
                                /\ Duration(o.id, SubSeq(segments, 1, a)) < o.burst)
                                => Cardinality(Between(a, b, o.id)) = 1
                          /\ o.arrival > t => Between(a, b, o.id) = {}

(* between two consecutive slices of a process another process that had    *)
(* arrived ran its one slice, while no later arrival ran                   *)
C24_Witness ==
    /\ Returned /\ algo = "RR"
    /\ \E a, b \in 1..Len(segments) :
          /\ ConsecutiveOf(a, b)
          /\ b = a + 2
          /\ segments[a + 1].pid # IDLE

(* the idle segments of a segment list, in order *)
IdleSegments(segs) == SelectSeq(segs, LAMBDA g : g.pid = IDLE)

(* C25 Policy-independent makespan: for the caller's process list and every *)
(* quantum q >= 1, FCFS, SJF, Priority and round robin return lists with   *)
(* the same end of the last segment and exactly the same IDLE segments.    *)
C25_PolicyIndependentMakespan ==
    Returned =>
        \A a \in Algos, q \in Quanta :
            LET r == schedule(a, processes, q)
            IN /\ ~r.threw
               /\ LastEnd(r.segments) = LastEnd(segments)
               /\ IdleSegments(r.segments) = IdleSegments(segments)

(* a list with an idle gap on which two policies order the processes       *)
(* differently                                                             *)
C25_Witness ==
    /\ Returned
    /\ HasIdle
    /\ \E a \in Algos, q \in Quanta :
          schedule(a, processes, q).segments # segments

(* the largest burst of the caller's processes, 0 for the empty list *)
LargestBurst ==
    IF Len(processes) = 0 THEN 0
    ELSE CHOOSE b \in {processes[k].burst : k \in 1..Len(processes)} :
             \A k \in 1..Len(processes) : processes[k].burst <= b

(* C26 Round robin degenerates to FCFS: with a quantum q >= the largest    *)
(* burst of the list, scheduleRoundRobin(processes, q) returns exactly the *)
(* segment list of scheduleFCFS(processes).                                *)
C26_RoundRobinDegeneratesToFCFS ==
    Returned =>
        /\ \A q \in Quanta :
              q >= LargestBurst =>
                  scheduleRoundRobin(processes, q) = scheduleFCFS(processes)
        /\ (algo = "RR" /\ quantum >= LargestBurst) =>
              segments = scheduleFCFS(processes).segments

(* round robin returned for two processes, one of them with a burst as     *)
(* large as the quantum and larger than one time unit                      *)
C26_Witness ==
    /\ Returned /\ algo = "RR"
    /\ Len(processes) >= 2
    /\ LargestBurst >= 2
    /\ quantum >= LargestBurst
    /\ Len(segments) >= 2

(* C21 Quantum clamp: after any sequence of quantum edits, the quantum the *)
(* component passes to scheduleRoundRobin is an integer >= 1.              *)
C21_QuantumClamp ==
    /\ isNumber(quantum) /\ quantum \in Nat /\ quantum >= 1
    /\ isNumber(passedQuantum) /\ passedQuantum \in Nat /\ passedQuantum >= 1

(* round robin was built after the quantum field was edited to a value the *)
(* field had to clamp or accept                                            *)
C21_Witness ==
    /\ pc = "ui"
    /\ algo = "RR"
    /\ quantum # InitialQuantum
    /\ built # << >>
    /\ Len(segments) > 0
    /\ segments = scheduleRoundRobin(built[1], passedQuantum).segments

(* C27 Playback cursor bound: in every state reached by any interleaving   *)
(* of Build, Play/Pause, Step, Reset, speed change, process-set edits,     *)
(* algorithm change and interval callbacks, 0 <= currentTime <= length of  *)
(* the current tick sequence.                                              *)
C27_CursorBound ==
    /\ 0 <= currentTime
    /\ currentTime <= Len(ticks)

(* C28 Timer matches the running flag: in every state reached by any       *)
(* interleaving of Build, Play/Pause, Step, Reset, speed change and        *)
(* interval callbacks, an interval is live if and only if running is true. *)
C28_TimerMatchesRunning ==
    (timerRef # << >>) <=> running

(* Play was pressed on a non-empty tick sequence and no control has been   *)
(* touched since                                                           *)
Watching == pc = "watch"

PlaybackComplete == currentTime = Len(ticks) /\ timerRef = << >>

(* C29 Playback completes, as stated: after Play is pressed with a         *)
(* non-empty tick sequence, if interval callbacks keep firing and no other *)
(* user action occurs, the cursor advances by exactly 1 per callback,      *)
(* eventually equals ticks.length, the timer is then cleared, and the      *)
(* cursor never changes afterwards.                                        *)
C29_PlaybackCompletes ==
    /\ [][(Watching /\ timerRef # << >>) => currentTime' = currentTime + 1]_vars
    /\ Watching ~> PlaybackComplete
    /\ [][(Watching /\ timerRef = << >>) => currentTime' = currentTime]_vars

(* C29 Playback completes, amended: after Play is pressed with a non-empty *)
(* tick sequence, if interval callbacks keep firing and no other user      *)
(* action occurs, each callback that finds the cursor below ticks.length   *)
(* advances it by exactly 1 and a callback that finds it at or above       *)
(* ticks.length leaves it at ticks.length; the cursor eventually equals    *)
(* ticks.length, the timer is then cleared, and the cursor never changes   *)
(* afterwards.                                                             *)
C29_PlaybackCompletesFromBelow ==
    /\ [][(Watching /\ timerRef # << >>) =>
              currentTime' = IF currentTime < Len(ticks)
                             THEN currentTime + 1
                             ELSE Len(ticks)]_vars
    /\ [][(Watching /\ timerRef # << >> /\ currentTime' = Len(ticks)) =>
              timerRef' = << >>]_vars
    /\ Watching ~> PlaybackComplete
    /\ [][(Watching /\ timerRef = << >>) => currentTime' = currentTime]_vars

(* playback ran to the end of a non-empty tick sequence with no control    *)
(* touched after Play                                                      *)
C29_Witness ==
    /\ Watching
    /\ Len(ticks) > 0
    /\ PlaybackComplete
    /\ running

(* C30 Stored outputs stay consistent: in every state the stored tick      *)
(* sequence equals segmentsToTicks of the stored segment list and its      *)
(* length equals the displayed makespan; every Build leaves the cursor at  *)
(* 0 and running false.                                                    *)
C30_StoredOutputsConsistent ==
    /\ [](/\ ticks = segmentsToTicks(segments)
          /\ Len(ticks) = makespan)
    /\ [][buildSchedule => (currentTime' = 0 /\ running' = FALSE)]_vars

(* Build was pressed during playback of an earlier schedule: the cursor is *)
(* back at 0 and running is false, with a non-empty schedule stored        *)
C30_Witness ==
    /\ built # << >>
    /\ Len(segments) > 1
    /\ Len(ticks) > 0
    /\ timerRef # << >>
    /\ currentTime = 0
    /\ ~running

(* the loop run step by step returns what the function as a whole returns *)
StepwiseIsWhole ==
    /\ Returned => (segments = schedule(algo, processes, quantum).segments
                    /\ ~schedule(algo, processes, quantum).threw)
    /\ pc = "threw" => schedule(algo, processes, quantum).threw

====
